---- MODULE Spec2Model ----
(***************************************************************************)
(* Confidential-transaction core of mobilecoin: the Amount commitment      *)
(* scheme (transaction/core/src/amount.rs) and the TxOut / confirmation    *)
(* number operations (transaction/core/src/tx.rs).                         *)
(*                                                                         *)
(* Scaling.  The code works with u64 values (2^64) and Ristretto scalars   *)
(* modulo the group order l (about 2^252).  TLC cannot hold such numbers,  *)
(* so the model keeps the structure and shrinks the widths: a u64 has      *)
(* U64Bits bits, scalars are integers modulo ScalarOrder, and              *)
(* MAX_TINY_MOB < 2^U64Bits <= ScalarOrder as in the code                  *)
(* (MAX_TINY_MOB < 2^64 < l).                                              *)
(*                                                                         *)
(* Group.  A point is written <<x, y>> for x*G + y*H, where G and H are    *)
(* the two Pedersen generators (GENERATORS.B, GENERATORS.B_blinding).      *)
(* The generators are independent (no relation between G and H is known),  *)
(* so two points are equal iff both coordinates are equal.                 *)
(***************************************************************************)
EXTENDS Integers, Naturals, Sequences, FiniteSets, TLC

\* ------------------------------------------------------------------ sizes
\* Width of the model's u64 (64 in the code).
U64Bits == 2
\* Order of the scalar field of the model (the group order l in the code).
ScalarOrder == 7
\* Number of distinct shared secrets the inputs are drawn from.
NumSecrets == 3
\* Number of hash functions (seeds of Blake2b's stand-in) Init chooses from.
NumSeeds == 2

\* Number of recipient addresses, fog hints and plaintext memos TxOut::new is tried on.
NumRecipients == 2
NumHints == 2
NumMemos == 2
\* Longest e_memo, and number of byte patterns, a TxOut is given field by field.
MaxEMemoLen == 36
NumFills == 2

\* Largest index / highest_index of a membership proof, longest list of elements of a
\* proof, and longest ring, proofs, inputs and outputs list.
MaxIndex == 2
MaxElems == 2
MaxVec == 2

\* constants::MAX_TINY_MOB (imported at amount.rs:11), scaled to the model's u64.
MAX_TINY_MOB == 2

U64Mod == 2 ^ U64Bits
U64 == 0 .. (U64Mod - 1)
Scalars == 0 .. (ScalarOrder - 1)
Points == Scalars \X Scalars
\* Shared secrets r*B: multiples of the base point G.
Secrets == { <<i, 0>> : i \in 1 .. NumSecrets }
Seeds == 0 .. (NumSeeds - 1)

VARIABLES
    seed,      \* which hash function Blake2b is, fixed for the whole run
    st,        \* position of the scenario, which starts from "empty" and builds one
               \* Amount; what `amount` holds: "empty", "rejected", "built",
               \* "tampered_value", "tampered_blinding", "arbitrary"
    call,      \* the arguments of the last Amount::new call
    new_res,   \* the Result<Amount, AmountError> of the last Amount::new call
    amount,    \* the Amount under test (its three pub fields)
    gv,        \* the last get_value call: its shared secret and its Result
    cst,       \* confirmation scenario: "empty", "derived"
    conf_in,   \* the keys the confirmation number was derived from
    conf,      \* the TxOutConfirmationNumber under test (its 32 bytes, as a number)
    val,       \* the last validate call: its arguments, the number it ran on, its result
    tst,       \* TxOut scenario: "empty", "rejected", "built", "arbitrary"
    tx_call,   \* the arguments of the last TxOut::new call
    txout,     \* the TxOut under test (its five pub fields)
    memo_call, \* the last try_decrypt_memo call: its shared secret and its Result
    tx_gv,     \* the last txout.amount.get_value call: its shared secret and its Result
    xst,       \* object scenario: "empty", "made", "encoded", "decoded", "hashed",
               \* "queried"
    obj,       \* the object under test: its type and its value
    proof_call, \* the arguments of the TxOutMembershipProof::new call that made obj
    wire,      \* the buffer obj was encoded into
    dec,       \* the value decoded from the buffer
    obj2,      \* a second object: obj with one field given a value
    hashes,    \* the last two hashes computed, and of what
    qry        \* the last query of obj: its name, obj before the call, its result

amountVars == <<st, call, new_res, amount, gv>>
confVars == <<cst, conf_in, conf, val>>
txoutVars == <<tst, tx_call, txout, memo_call, tx_gv>>
txVars == <<xst, obj, proof_call, wire, dec, obj2, hashes, qry>>
vars == <<seed, amountVars, confVars, txoutVars, txVars>>

\* ---------------------------------------------------------- scalar / points
\* Scalar::from(u64)
ScalarFrom(value) == value % ScalarOrder

\* Scalar + Scalar, Scalar - Scalar (mod l)
ScalarAdd(a, b) == (a + b) % ScalarOrder
ScalarSub(a, b) == (a - b + ScalarOrder) % ScalarOrder

\* GENERATORS.commit(value, blinding) = value*G + blinding*H
Commit(value, blinding) == <<value % ScalarOrder, blinding % ScalarOrder>>

\* RistrettoPublic::to_bytes(): the 32-byte compressed encoding, as a number.
PointBytes(p) == p[1] + ScalarOrder * p[2]

\* Scalar::to_bytes() / as_bytes(): 32 bytes little-endian, as a number.
ScalarBytes(s) == s

\* Blake2b over a 32-byte input; the seed picks the function.
Blake2b(n) == n * n * n + (2 * seed + 1) * n + seed + 3

\* Scalar::from_hash(hasher): the 64-byte digest reduced modulo l.
ScalarFromHash(n) == Blake2b(n) % ScalarOrder

\* ----------------------------------------------------------------- masks
get_mask_constant(shared_secret) == ScalarFromHash(0)

\* fn get_mask(shared_secret)
get_mask(shared_secret) == ScalarFromHash(PointBytes(shared_secret))

\* fn get_value_mask(shared_secret)
get_value_mask(shared_secret) == get_mask(shared_secret)

\* fn get_blinding_mask(shared_secret)
get_blinding_mask(shared_secret) ==
    LET inner_mask == get_mask(shared_secret)
    IN  ScalarFromHash(ScalarBytes(inner_mask))

\* ---------------------------------------------------------------- results
ZeroAmount == [commitment |-> <<0, 0>>, masked_value |-> 0, masked_blinding |-> 0]
NoCall == [made |-> FALSE, value |-> 0, blinding |-> 0, shared_secret |-> <<0, 0>>]
NoNew == [tag |-> "None", err |-> "-", arg |-> 0, amount |-> ZeroAmount]
NoValue == [tag |-> "None", err |-> "-", value |-> 0, blinding |-> 0]
NoGet == [made |-> FALSE, shared_secret |-> <<0, 0>>, res |-> NoValue]

OkAmount(a) == [tag |-> "Ok", err |-> "-", arg |-> 0, amount |-> a]
ErrExceedsLimit(value) ==
    [tag |-> "Err", err |-> "ExceedsLimit", arg |-> value, amount |-> ZeroAmount]
OkValue(value, blinding) ==
    [tag |-> "Ok", err |-> "-", value |-> value, blinding |-> blinding]
ErrInconsistentCommitment ==
    [tag |-> "Err", err |-> "InconsistentCommitment", value |-> 0, blinding |-> 0]

\* ------------------------------------------------------------ Amount::new
Amount_new_inclusive_limit(value, blinding, shared_secret) ==
    IF value >= MAX_TINY_MOB
    THEN ErrExceedsLimit(value)
    ELSE OkAmount([commitment |-> Commit(ScalarFrom(value), blinding),
                   masked_value |-> ScalarAdd(ScalarFrom(value), get_value_mask(shared_secret)),
                   masked_blinding |-> ScalarAdd(blinding, get_blinding_mask(shared_secret))])

Amount_new_one_mask(value, blinding, shared_secret) ==
    IF value > MAX_TINY_MOB
    THEN ErrExceedsLimit(value)
    ELSE OkAmount([commitment |-> Commit(ScalarFrom(value), blinding),
                   masked_value |-> ScalarAdd(ScalarFrom(value), get_value_mask(shared_secret)),
                   masked_blinding |-> ScalarAdd(blinding, get_value_mask(shared_secret))])

Amount_new(value, blinding, shared_secret) ==
    IF value > MAX_TINY_MOB
    THEN ErrExceedsLimit(value)
    ELSE LET v == ScalarFrom(value)
             commitment == Commit(v, blinding)
             masked_value == ScalarAdd(v, get_value_mask(shared_secret))
             masked_blinding == ScalarAdd(blinding, get_blinding_mask(shared_secret))
         IN  OkAmount([commitment |-> commitment,
                       masked_value |-> masked_value,
                       masked_blinding |-> masked_blinding])

\* ------------------------------------------------------ Amount::get_value
\* fn unmask_value(&self, shared_secret) -> u64
unmask_value(self, shared_secret) ==
    LET mask == get_value_mask(shared_secret)
        value_as_scalar == ScalarSub(self.masked_value, mask)
    IN  \* the low 8 bytes of the little-endian encoding
        ScalarBytes(value_as_scalar) % U64Mod

unmask_blinding_value_mask(self, shared_secret) ==
    ScalarSub(self.masked_blinding, get_value_mask(shared_secret))

\* fn unmask_blinding(&self, shared_secret) -> Blinding
unmask_blinding(self, shared_secret) ==
    LET mask == get_blinding_mask(shared_secret)
    IN  ScalarSub(self.masked_blinding, mask)

get_value_unchecked(self, shared_secret) ==
    OkValue(unmask_value(self, shared_secret), unmask_blinding(self, shared_secret))

get_value_checks_value_only(self, shared_secret) ==
    LET value == unmask_value(self, shared_secret)
        blinding == unmask_blinding(self, shared_secret)
    IN  IF self.commitment[1] # Commit(ScalarFrom(value), blinding)[1]
        THEN ErrInconsistentCommitment
        ELSE OkValue(value, blinding)

\* fn get_value(&self, shared_secret) -> Result<(u64, Blinding), AmountError>
get_value(self, shared_secret) ==
    LET value == unmask_value(self, shared_secret)
        blinding == unmask_blinding(self, shared_secret)
        expected_commitment == Commit(ScalarFrom(value), blinding)
    IN  IF self.commitment # expected_commitment
        THEN ErrInconsistentCommitment
        ELSE OkValue(value, blinding)

\* ------------------------------------------------- TxOutConfirmationNumber
\* domain_separators::TXOUT_CONFIRMATION_NUMBER_DOMAIN_TAG (imported at tx.rs:20),
\* the tag bytes as a number.
TXOUT_CONFIRMATION_NUMBER_DOMAIN_TAG == 5

\* scalar * point
ScalarMul(k, p) == <<(k * p[1]) % ScalarOrder, (k * p[2]) % ScalarOrder>>

\* RistrettoPublic::from(&private): private * G
PublicFrom(private) == ScalarMul(private, <<1, 0>>)

\* Keys of the G subgroup, the public keys of all private scalars.
PublicKeys == { PublicFrom(k) : k \in Scalars }

\* Blake2b256 over the two updates (tag, 32 bytes): a 32-byte digest, as a number.
\* A 256-bit digest of fewer than ScalarOrder^2 inputs: no two inputs collide.
Blake2b256(tag, n) == (seed + 2) * (tag + 1) + (ScalarOrder * ScalarOrder + tag + 2) * n

\* get_tx_out_shared_secret(view_private_key, tx_pubkey) = view_private_key * tx_pubkey
get_tx_out_shared_secret(view_private_key, tx_pubkey) == ScalarMul(view_private_key, tx_pubkey)

TxOutConfirmationNumber_from_tag_only(shared_secret) ==
    Blake2b256(TXOUT_CONFIRMATION_NUMBER_DOMAIN_TAG, 0)

\* impl From<&RistrettoPublic> for TxOutConfirmationNumber
TxOutConfirmationNumber_from(shared_secret) ==
    Blake2b256(TXOUT_CONFIRMATION_NUMBER_DOMAIN_TAG, PointBytes(shared_secret))

\* fn validate(&self, tx_pubkey, view_private_key) -> bool
validate(self, tx_pubkey, view_private_key) ==
    LET shared_secret == get_tx_out_shared_secret(view_private_key, tx_pubkey)
        calculated_confirmation == TxOutConfirmationNumber_from(shared_secret)
    IN  calculated_confirmation = self

NoKeys == [tx_priv |-> 0, view_priv |-> 0]
NoValidate == [made |-> FALSE, self |-> 0, tx_pubkey |-> <<0, 0>>, view_private_key |-> 0,
               result |-> FALSE]

\* ------------------------------------------------------------- MemoPayload
\* Length of an encrypted memo ("This is exactly 34 bytes, or should be empty").
MemoLen == 34

RECURSIVE BitXor(_, _)
BitXor(a, b) ==
    IF a = 0 /\ b = 0 THEN 0
    ELSE (((a % 2) + (b % 2)) % 2) + 2 * BitXor(a \div 2, b \div 2)

\* Byte i of the cipher's key stream for a shared secret.
KeyStream(shared_secret, i) ==
    (Blake2b(PointBytes(shared_secret)) * i + i * i + PointBytes(shared_secret)) % 256

\* MemoPayload::default(): the "unused memo", all zero bytes.
MemoPayload_default == [i \in 1 .. MemoLen |-> 0]

\* MemoPayload::encrypt(self, shared_secret) -> 34 bytes
MemoPayload_encrypt(memo, shared_secret) ==
    [i \in 1 .. MemoLen |-> BitXor(memo[i], KeyStream(shared_secret, i))]

OkMemo(memo) == [tag |-> "Ok", err |-> "-", memo |-> memo]
ErrLengthError == [tag |-> "Err", err |-> "LengthError", memo |-> <<>>]
NoMemo == [tag |-> "None", err |-> "-", memo |-> <<>>]

\* MemoPayload::try_decrypt(bytes, shared_secret) -> Result<MemoPayload, LengthError>
MemoPayload_try_decrypt(bytes, shared_secret) ==
    IF Len(bytes) # MemoLen
    THEN ErrLengthError
    ELSE OkMemo([i \in 1 .. MemoLen |-> BitXor(bytes[i], KeyStream(shared_secret, i))])

\* ------------------------------------------------------------------- TxOut
\* PublicAddress { view_public_key, spend_public_key }
Recipients ==
    { [view_public_key |-> PublicFrom(i), spend_public_key |-> PublicFrom(i + 2)] :
        i \in 1 .. NumRecipients }
Hints == 1 .. NumHints
\* Plaintext memos: the default memo (k = 0) and memos of distinct bytes.
Memos == { [i \in 1 .. MemoLen |-> (k * (i + 6)) % 256] : k \in 0 .. (NumMemos - 1) }
\* e_memo contents of every length up to MaxEMemoLen.
EMemos ==
    { [i \in 1 .. n |-> (k * i + 3 * k) % 256] : n \in 0 .. MaxEMemoLen, k \in 0 .. (NumFills - 1) }

\* onetime_keys::create_shared_secret(public, private) = private * public
create_shared_secret(public, private) == ScalarMul(private, public)

\* onetime_keys::create_tx_public_key(tx_private_key, spend_public_key) = r * D
create_tx_public_key(tx_private_key, spend_public_key) ==
    ScalarMul(tx_private_key, spend_public_key)

\* Point + Point
PointAdd(p, q) == <<(p[1] + q[1]) % ScalarOrder, (p[2] + q[2]) % ScalarOrder>>

\* onetime_keys::create_onetime_public_key(tx_private_key, recipient) = Hs(r*C)*G + D
create_onetime_public_key(tx_private_key, recipient) ==
    PointAdd(PublicFrom(ScalarFromHash(PointBytes(
                 ScalarMul(tx_private_key, recipient.view_public_key)) + 1)),
             recipient.spend_public_key)

\* The blinding of an output, drawn deterministically from the shared secret.
blinding_from(shared_secret) == ScalarFromHash(PointBytes(shared_secret) + 2)

ZeroTxOut == [amount |-> ZeroAmount, target_key |-> <<0, 0>>, public_key |-> <<0, 0>>,
              e_fog_hint |-> 0, e_memo |-> <<>>]
OkTxOut(t) == [tag |-> "Ok", err |-> "-", arg |-> 0, tx_out |-> t]
ErrTxOut(e) == [tag |-> "Err", err |-> e.err, arg |-> e.arg, tx_out |-> ZeroTxOut]
NoTxCall == [made |-> FALSE, value |-> 0, recipient |-> [view_public_key |-> <<0, 0>>,
             spend_public_key |-> <<0, 0>>], tx_private_key |-> 0, hint |-> 0, memo |-> <<>>,
             res |-> [tag |-> "None", err |-> "-", arg |-> 0, tx_out |-> ZeroTxOut]]
NoMemoCall == [made |-> FALSE, shared_secret |-> <<0, 0>>, res |-> NoMemo]

TxOut_new_plain_memo(value, recipient, tx_private_key, hint, memo) ==
    LET shared_secret == create_shared_secret(recipient.view_public_key, tx_private_key)
        amount_res == Amount_new(value, blinding_from(shared_secret), shared_secret)
    IN  IF amount_res.tag = "Err"
        THEN ErrTxOut(amount_res)
        ELSE OkTxOut([amount |-> amount_res.amount,
                      target_key |-> create_onetime_public_key(tx_private_key, recipient),
                      public_key |-> create_tx_public_key(tx_private_key,
                                                          recipient.spend_public_key),
                      e_fog_hint |-> hint,
                      e_memo |-> memo])

TxOut_new_swapped_keys(value, recipient, tx_private_key, hint, memo) ==
    LET shared_secret == create_shared_secret(recipient.view_public_key, tx_private_key)
        amount_res == Amount_new(value, blinding_from(shared_secret), shared_secret)
    IN  IF amount_res.tag = "Err"
        THEN ErrTxOut(amount_res)
        ELSE OkTxOut([amount |-> amount_res.amount,
                      target_key |-> create_tx_public_key(tx_private_key,
                                                          recipient.spend_public_key),
                      public_key |-> create_onetime_public_key(tx_private_key, recipient),
                      e_fog_hint |-> hint,
                      e_memo |-> MemoPayload_encrypt(memo, shared_secret)])

\* TxOut::new(value, recipient, tx_private_key, hint, memo) -> Result<TxOut, AmountError>
TxOut_new(value, recipient, tx_private_key, hint, memo) ==
    LET target_key == create_onetime_public_key(tx_private_key, recipient)
        public_key == create_tx_public_key(tx_private_key, recipient.spend_public_key)
        shared_secret == create_shared_secret(recipient.view_public_key, tx_private_key)
        amount_res == Amount_new(value, blinding_from(shared_secret), shared_secret)
    IN  IF amount_res.tag = "Err"
        THEN ErrTxOut(amount_res)          \* the `?` after Amount::new
        ELSE LET e_memo == MemoPayload_encrypt(memo, shared_secret)
             IN  OkTxOut([amount |-> amount_res.amount,
                          target_key |-> target_key,
                          public_key |-> public_key,
                          e_fog_hint |-> hint,
                          e_memo |-> e_memo])

try_decrypt_memo_always_decrypts(self, tx_out_shared_secret) ==
    MemoPayload_try_decrypt(self.e_memo, tx_out_shared_secret)

\* fn try_decrypt_memo(&self, tx_out_shared_secret) -> Result<MemoPayload, LengthError>
try_decrypt_memo(self, tx_out_shared_secret) ==
    IF Len(self.e_memo) = 0
    THEN OkMemo(MemoPayload_default)
    ELSE MemoPayload_try_decrypt(self.e_memo, tx_out_shared_secret)

\* ------------------------------------------------- membership proofs, Tx
\* membership_proofs::Range { from, to }
MkRange(from, to) == [from |-> from, to |-> to]

\* TxOutMembershipElement::new(range, hash)
TxOutMembershipElement_new(range, hash) == [range |-> range, hash |-> hash]

\* TxOutMembershipProof::new(index, highest_index, elements)
TxOutMembershipProof_new(index, highest_index, elements) ==
    [index |-> index, highest_index |-> highest_index, elements |-> elements]

\* TxPrefix::new(inputs, outputs, fee, tombstone_block)
TxPrefix_new(inputs, outputs, fee, tombstone_block) ==
    [inputs |-> inputs, outputs |-> outputs, fee |-> fee,
     tombstone_block |-> tombstone_block]

\* ------------------------------------------------------ protobuf (prost)
\* An encoded message is the sequence of its fields; a field is its tag, its wire
\* type (0 varint, 2 length-delimited) and its payload: <<n>> for a varint, the
\* bytes for a bytes field, the encoded fields for an embedded message.
WireField(tag, wt, payload) == [tag |-> tag, wt |-> wt, payload |-> payload]

\* #[prost(uint64, tag)]: left out when the value is the default, 0
EncUint64(tag, n) == IF n = 0 THEN <<>> ELSE <<WireField(tag, 0, <<n>>)>>

\* #[prost(bytes, tag)]: left out when the bytes are empty
EncBytes(tag, b) == IF Len(b) = 0 THEN <<>> ELSE <<WireField(tag, 2, b)>>

\* #[prost(message, required, tag)]: always written
EncMessage(tag, enc) == <<WireField(tag, 2, enc)>>

\* #[prost(message, repeated, tag)]: one field per element, in order
EncRepeated(tag, encs) == [i \in 1 .. Len(encs) |-> WireField(tag, 2, encs[i])]

\* derive_prost_message_from_repr_bytes!: the 32 bytes (here the number n)
ReprBytes_encode(n) == <<WireField(1, 2, <<n>>)>>

\* The fields of w with the given tag, in order.
FieldsOf(w, tag) == SelectSeq(w, LAMBDA f : f.tag = tag)

\* The payload of the last field with the tag, or the default.
LastPayload(w, tag, default) ==
    LET fs == FieldsOf(w, tag)
    IN  IF Len(fs) = 0 THEN default ELSE fs[Len(fs)].payload

DecUint64(w, tag) == LastPayload(w, tag, <<0>>)[1]
DecBytes(w, tag) == LastPayload(w, tag, <<>>)
DecMessage(w, tag) == LastPayload(w, tag, <<>>)
ReprBytes_decode(w) == LastPayload(w, 1, <<0>>)[1]

\* RistrettoPublic / Commitment from its 32 bytes
PointFromBytes(n) == <<n % ScalarOrder, n \div ScalarOrder>>

\* struct Amount: 1 = commitment, 2 = masked_value, 3 = masked_blinding
Amount_encode(a) ==
    EncMessage(1, ReprBytes_encode(PointBytes(a.commitment)))
    \o EncMessage(2, ReprBytes_encode(ScalarBytes(a.masked_value)))
    \o EncMessage(3, ReprBytes_encode(ScalarBytes(a.masked_blinding)))

Amount_decode(w) ==
    [commitment |-> PointFromBytes(ReprBytes_decode(DecMessage(w, 1))),
     masked_value |-> ReprBytes_decode(DecMessage(w, 2)),
     masked_blinding |-> ReprBytes_decode(DecMessage(w, 3))]

\* struct TxOut: 1 = amount, 2 = target_key, 3 = public_key, 4 = e_fog_hint, 5 = e_memo
TxOut_encode(t) ==
    EncMessage(1, Amount_encode(t.amount))
    \o EncMessage(2, ReprBytes_encode(PointBytes(t.target_key)))
    \o EncMessage(3, ReprBytes_encode(PointBytes(t.public_key)))
    \o EncMessage(4, ReprBytes_encode(t.e_fog_hint))
    \o EncBytes(5, t.e_memo)

TxOut_decode(w) ==
    [amount |-> Amount_decode(DecMessage(w, 1)),
     target_key |-> PointFromBytes(ReprBytes_decode(DecMessage(w, 2))),
     public_key |-> PointFromBytes(ReprBytes_decode(DecMessage(w, 3))),
     e_fog_hint |-> ReprBytes_decode(DecMessage(w, 4)),
     e_memo |-> DecBytes(w, 5)]

\* membership_proofs::Range: 1 = from, 2 = to
Range_encode(r) == EncUint64(1, r.from) \o EncUint64(2, r.to)
Range_decode(w) == [from |-> DecUint64(w, 1), to |-> DecUint64(w, 2)]

\* struct TxOutMembershipElement: 1 = range, 2 = hash
TxOutMembershipElement_encode(e) ==
    EncMessage(1, Range_encode(e.range)) \o EncMessage(2, ReprBytes_encode(e.hash))

TxOutMembershipElement_decode(w) ==
    [range |-> Range_decode(DecMessage(w, 1)),
     hash |-> ReprBytes_decode(DecMessage(w, 2))]

\* struct TxOutMembershipProof: 1 = index, 2 = highest_index, 3 = elements
TxOutMembershipProof_encode(pr) ==
    EncUint64(1, pr.index)
    \o EncUint64(2, pr.highest_index)
    \o EncRepeated(3, [i \in 1 .. Len(pr.elements) |->
                          TxOutMembershipElement_encode(pr.elements[i])])

TxOutMembershipProof_decode(w) ==
    LET es == FieldsOf(w, 3)
    IN  [index |-> DecUint64(w, 1),
         highest_index |-> DecUint64(w, 2),
         elements |-> [i \in 1 .. Len(es) |-> TxOutMembershipElement_decode(es[i].payload)]]

\* struct TxIn: 1 = ring, 2 = proofs
TxIn_encode(ti) ==
    EncRepeated(1, [i \in 1 .. Len(ti.ring) |-> TxOut_encode(ti.ring[i])])
    \o EncRepeated(2, [i \in 1 .. Len(ti.proofs) |->
                          TxOutMembershipProof_encode(ti.proofs[i])])

TxIn_decode(w) ==
    LET rs == FieldsOf(w, 1)
        ps == FieldsOf(w, 2)
    IN  [ring |-> [i \in 1 .. Len(rs) |-> TxOut_decode(rs[i].payload)],
         proofs |-> [i \in 1 .. Len(ps) |-> TxOutMembershipProof_decode(ps[i].payload)]]

TxPrefix_encode_fee_as_tombstone(x) ==
    EncRepeated(1, [i \in 1 .. Len(x.inputs) |-> TxIn_encode(x.inputs[i])])
    \o EncRepeated(2, [i \in 1 .. Len(x.outputs) |-> TxOut_encode(x.outputs[i])])
    \o EncUint64(4, x.fee)
    \o EncUint64(4, x.tombstone_block)

\* struct TxPrefix: 1 = inputs, 2 = outputs, 3 = fee, 4 = tombstone_block
TxPrefix_encode(x) ==
    EncRepeated(1, [i \in 1 .. Len(x.inputs) |-> TxIn_encode(x.inputs[i])])
    \o EncRepeated(2, [i \in 1 .. Len(x.outputs) |-> TxOut_encode(x.outputs[i])])
    \o EncUint64(3, x.fee)
    \o EncUint64(4, x.tombstone_block)

TxPrefix_decode(w) ==
    LET is == FieldsOf(w, 1)
        os == FieldsOf(w, 2)
    IN  [inputs |-> [i \in 1 .. Len(is) |-> TxIn_decode(is[i].payload)],
         outputs |-> [i \in 1 .. Len(os) |-> TxOut_decode(os[i].payload)],
         fee |-> DecUint64(w, 3),
         tombstone_block |-> DecUint64(w, 4)]

\* SignatureRctBulletproofs, opaque: 0 is the default signature, an empty message
Signature_encode(sig) == EncUint64(1, sig)
Signature_decode(w) == DecUint64(w, 1)

\* struct Tx: 1 = prefix, 2 = signature
Tx_encode(x) ==
    EncMessage(1, TxPrefix_encode(x.prefix)) \o EncMessage(2, Signature_encode(x.signature))

Tx_decode(w) ==
    [prefix |-> TxPrefix_decode(DecMessage(w, 1)),
     signature |-> Signature_decode(DecMessage(w, 2))]

\* x.encode(&mut buf), T::decode(&buf[..]) by the type of the value
Encode(type, x) ==
    CASE type = "Amount" -> Amount_encode(x)
      [] type = "TxOut" -> TxOut_encode(x)
      [] type = "TxIn" -> TxIn_encode(x)
      [] type = "TxPrefix" -> TxPrefix_encode(x)
      [] type = "Tx" -> Tx_encode(x)
      [] type = "TxOutMembershipProof" -> TxOutMembershipProof_encode(x)

Decode(type, w) ==
    CASE type = "Amount" -> Amount_decode(w)
      [] type = "TxOut" -> TxOut_decode(w)
      [] type = "TxIn" -> TxIn_decode(w)
      [] type = "TxPrefix" -> TxPrefix_decode(w)
      [] type = "Tx" -> Tx_decode(w)
      [] type = "TxOutMembershipProof" -> TxOutMembershipProof_decode(w)

\* ------------------------------------------------------- queries of Tx
RECURSIVE ConcatAll(_)
\* Iterator::flat_map(..).collect(): the inner lists, one after the other
ConcatAll(ss) == IF Len(ss) = 0 THEN <<>> ELSE Head(ss) \o ConcatAll(Tail(ss))

TxPrefix_get_membership_proof_highest_indices_first_only(x) ==
    ConcatAll([i \in 1 .. Len(x.inputs) |->
        IF Len(x.inputs[i].proofs) = 0 THEN <<>>
        ELSE <<x.inputs[i].proofs[1].highest_index>>])

\* TxPrefix::get_membership_proof_highest_indices(&self)
TxPrefix_get_membership_proof_highest_indices(x) ==
    ConcatAll([i \in 1 .. Len(x.inputs) |->
        [j \in 1 .. Len(x.inputs[i].proofs) |-> x.inputs[i].proofs[j].highest_index]])

\* Tx::get_membership_proof_highest_indices(&self)
Tx_get_membership_proof_highest_indices(tx) ==
    TxPrefix_get_membership_proof_highest_indices(tx.prefix)

\* TxPrefix::output_commitments(&self)
TxPrefix_output_commitments(x) ==
    [i \in 1 .. Len(x.outputs) |-> x.outputs[i].amount.commitment]

Tx_output_public_keys_target(tx) ==
    [i \in 1 .. Len(tx.prefix.outputs) |-> tx.prefix.outputs[i].target_key]

\* Tx::output_public_keys(&self)
Tx_output_public_keys(tx) ==
    [i \in 1 .. Len(tx.prefix.outputs) |-> tx.prefix.outputs[i].public_key]

\* ------------------------------------------------------------ Digestible
\* A transcript is the sequence of the messages appended to it; a message is its
\* label, its kind and its data.
Msg(label, kind, data) == [label |-> label, kind |-> kind, data |-> data]

DigestUint(label, n) == <<Msg(label, "uint", <<n>>)>>
DigestBytes(label, b) == <<Msg(label, "bytes", b)>>
\* a sequence: its length, then its elements
DigestSeq(label, items) == <<Msg(label, "seq", <<Len(items)>>)>> \o ConcatAll(items)
\* a struct: its name, its fields in declaration order, its end
DigestAgg(label, name, fields) ==
    <<Msg(label, "agg", <<>>), Msg(name, "name", <<>>)>> \o fields \o <<Msg(name, "end", <<>>)>>

Digestible_Amount(label, a) ==
    DigestAgg(label, "Amount",
        DigestBytes("commitment", <<PointBytes(a.commitment)>>)
        \o DigestBytes("masked_value", <<ScalarBytes(a.masked_value)>>)
        \o DigestBytes("masked_blinding", <<ScalarBytes(a.masked_blinding)>>))

Digestible_TxOut(label, t) ==
    DigestAgg(label, "TxOut",
        Digestible_Amount("amount", t.amount)
        \o DigestBytes("target_key", <<PointBytes(t.target_key)>>)
        \o DigestBytes("public_key", <<PointBytes(t.public_key)>>)
        \o DigestBytes("e_fog_hint", <<t.e_fog_hint>>)
        \o DigestBytes("e_memo", t.e_memo))

Digestible_TxOutMembershipElement(label, e) ==
    DigestAgg(label, "TxOutMembershipElement",
        DigestAgg("range", "Range",
            DigestUint("from", e.range.from) \o DigestUint("to", e.range.to))
        \o DigestBytes("hash", <<e.hash>>))

Digestible_TxOutMembershipProof(label, pr) ==
    DigestAgg(label, "TxOutMembershipProof",
        DigestUint("index", pr.index)
        \o DigestUint("highest_index", pr.highest_index)
        \o DigestSeq("elements", [i \in 1 .. Len(pr.elements) |->
               Digestible_TxOutMembershipElement("", pr.elements[i])]))

Digestible_TxIn(label, ti) ==
    DigestAgg(label, "TxIn",
        DigestSeq("ring", [i \in 1 .. Len(ti.ring) |-> Digestible_TxOut("", ti.ring[i])])
        \o DigestSeq("proofs", [i \in 1 .. Len(ti.proofs) |->
               Digestible_TxOutMembershipProof("", ti.proofs[i])]))

Digestible_TxPrefix_without_tombstone(label, x) ==
    DigestAgg(label, "TxPrefix",
        DigestSeq("inputs", [i \in 1 .. Len(x.inputs) |-> Digestible_TxIn("", x.inputs[i])])
        \o DigestSeq("outputs", [i \in 1 .. Len(x.outputs) |->
               Digestible_TxOut("", x.outputs[i])])
        \o DigestUint("fee", x.fee))

Digestible_TxPrefix(label, x) ==
    DigestAgg(label, "TxPrefix",
        DigestSeq("inputs", [i \in 1 .. Len(x.inputs) |-> Digestible_TxIn("", x.inputs[i])])
        \o DigestSeq("outputs", [i \in 1 .. Len(x.outputs) |->
               Digestible_TxOut("", x.outputs[i])])
        \o DigestUint("fee", x.fee)
        \o DigestUint("tombstone_block", x.tombstone_block))

Digestible_Tx(label, tx) ==
    DigestAgg(label, "Tx",
        Digestible_TxPrefix("prefix", tx.prefix)
        \o DigestUint("signature", tx.signature))

\* digest32::<MerlinTranscript>(context): the 32-byte challenge of the transcript
\* that absorbed the context and then the messages; distinct transcripts give
\* distinct challenges.
digest32(context, messages) == [context |-> context, transcript |-> messages]

\* TxPrefix::hash(&self)
TxPrefix_hash(x) == digest32("mobilecoin-tx-prefix", Digestible_TxPrefix("", x))

\* Tx::tx_hash(&self)
Tx_tx_hash(tx) == digest32("mobilecoin-tx", Digestible_Tx("", tx))

\* ------------------------------------------------------ objects under test
SeqsUpTo(S, n) == UNION { [1 .. k -> S] : k \in 0 .. n }

Fees == {0, 1}
Signatures == {0, 1}
Ranges == { MkRange(0, 0), MkRange(0, 1), MkRange(0, 3) }
Elements == { TxOutMembershipElement_new(r, r.from + 2 * r.to + 1) : r \in Ranges }
ElementLists == SeqsUpTo(Elements, MaxElems)

Amounts == { [commitment |-> c, masked_value |-> mv, masked_blinding |-> mb] :
                c \in Points, mv \in Scalars, mb \in Scalars }
TxOuts ==
    { [amount |-> a, target_key |-> t, public_key |-> k, e_fog_hint |-> h, e_memo |-> m] :
        a \in {ZeroAmount, [commitment |-> <<1, 2>>, masked_value |-> 3, masked_blinding |-> 4]},
        t \in {<<0, 0>>, <<2, 1>>}, k \in {<<0, 0>>, <<3, 0>>}, h \in Hints,
        m \in {<<>>, [i \in 1 .. MemoLen |-> i]} }

\* The outputs, proofs and inputs the lists of a TxIn and of a TxPrefix are made of.
SomeTxOuts ==
    { ZeroTxOut,
      [amount |-> [commitment |-> <<1, 2>>, masked_value |-> 3, masked_blinding |-> 4],
       target_key |-> <<2, 1>>, public_key |-> <<3, 0>>, e_fog_hint |-> 1,
       e_memo |-> [i \in 1 .. MemoLen |-> i]] }
SomeProofs ==
    { TxOutMembershipProof_new(0, 0, <<>>),
      TxOutMembershipProof_new(1, 2,
          <<TxOutMembershipElement_new(MkRange(0, 1), 3),
            TxOutMembershipElement_new(MkRange(0, 3), 7)>>) }
TxIns == { [ring |-> r, proofs |-> ps] :
              r \in SeqsUpTo(SomeTxOuts, MaxVec), ps \in SeqsUpTo(SomeProofs, MaxVec) }
SomeTxIns ==
    { [ring |-> <<>>, proofs |-> <<>>],
      [ring |-> <<ZeroTxOut>>,
       proofs |-> <<TxOutMembershipProof_new(1, 2, <<>>), TxOutMembershipProof_new(0, 0, <<>>)>>] }
InputLists == SeqsUpTo(SomeTxIns, MaxVec)
OutputLists == SeqsUpTo(SomeTxOuts, MaxVec)
TxPrefixes == { TxPrefix_new(is, os, fee, tb) :
                   is \in InputLists, os \in OutputLists, fee \in Fees, tb \in Fees }
Txs == { [prefix |-> x, signature |-> sig] : x \in TxPrefixes, sig \in Signatures }

Objects(type) ==
    CASE type = "Amount" -> Amounts
      [] type = "TxOut" -> TxOuts
      [] type = "TxIn" -> TxIns
      [] type = "TxPrefix" -> TxPrefixes
      [] type = "Tx" -> Txs

\* The values a field of a TxPrefix is given.
FieldValues(field) ==
    CASE field = "inputs" -> InputLists
      [] field = "outputs" -> OutputLists
      [] field = "fee" -> Fees
      [] field = "tombstone_block" -> Fees

\* x with x.field = v
WithField(x, field, v) ==
    CASE field = "inputs" -> [x EXCEPT !.inputs = v]
      [] field = "outputs" -> [x EXCEPT !.outputs = v]
      [] field = "fee" -> [x EXCEPT !.fee = v]
      [] field = "tombstone_block" -> [x EXCEPT !.tombstone_block = v]

NoObj == [type |-> "None", value |-> <<>>]
NoObj2 == [type |-> "None", field |-> "-", value |-> <<>>]
NoProofCall == [made |-> FALSE, index |-> 0, highest_index |-> 0, elements |-> <<>>]
NoWire == [made |-> FALSE, buf |-> <<>>]
NoDec == [made |-> FALSE, value |-> <<>>]
NoHashes == [kind |-> "none", a |-> digest32("", <<>>), b |-> digest32("", <<>>)]
NoQuery == [name |-> "none", before |-> <<>>, res |-> <<>>]

\* ---------------------------------------------------------------- actions
Init ==
    /\ seed \in Seeds
    /\ st = "empty"
    /\ call = NoCall
    /\ new_res = NoNew
    /\ amount = ZeroAmount
    /\ gv = NoGet
    /\ cst = "empty"
    /\ conf_in = NoKeys
    /\ conf = 0
    /\ val = NoValidate
    /\ tst = "empty"
    /\ tx_call = NoTxCall
    /\ txout = ZeroTxOut
    /\ memo_call = NoMemoCall
    /\ tx_gv = NoGet
    /\ xst = "empty"
    /\ obj = NoObj
    /\ proof_call = NoProofCall
    /\ wire = NoWire
    /\ dec = NoDec
    /\ obj2 = NoObj2
    /\ hashes = NoHashes
    /\ qry = NoQuery

\* let r = Amount::new(value, blinding, &shared_secret); on Ok the Amount is kept.
New(value, blinding, shared_secret) ==
    LET r == Amount_new(value, blinding, shared_secret)
    IN  /\ st = "empty"
        /\ call' = [made |-> TRUE, value |-> value, blinding |-> blinding,
                    shared_secret |-> shared_secret]
        /\ new_res' = r
        /\ amount' = r.amount
        /\ st' = IF r.tag = "Ok" THEN "built" ELSE "rejected"
        /\ gv' = NoGet
        /\ UNCHANGED <<txVars, seed, confVars, txoutVars>>

\* amount.masked_value = other_masked_value  (tests, amount.rs:270-271)
TamperMaskedValue(other) ==
    /\ st = "built"
    /\ other # amount.masked_value
    /\ amount' = [amount EXCEPT !.masked_value = other]
    /\ st' = "tampered_value"
    /\ gv' = NoGet
    /\ UNCHANGED <<txVars, seed, call, new_res, confVars, txoutVars>>

\* amount.masked_blinding = other_masked_blinding  (tests, amount.rs:286-287)
TamperMaskedBlinding(other) ==
    /\ st = "built"
    /\ other # amount.masked_blinding
    /\ amount' = [amount EXCEPT !.masked_blinding = other]
    /\ st' = "tampered_blinding"
    /\ gv' = NoGet
    /\ UNCHANGED <<txVars, seed, call, new_res, confVars, txoutVars>>

\* Amount { commitment, masked_value, masked_blinding } built field by field
\* (all three fields are pub, and decoding yields any such triple).
SetFields(commitment, masked_value, masked_blinding) ==
    /\ st = "empty"
    /\ amount' = [commitment |-> commitment, masked_value |-> masked_value,
                  masked_blinding |-> masked_blinding]
    /\ st' = "arbitrary"
    /\ call' = NoCall
    /\ new_res' = NoNew
    /\ gv' = NoGet
    /\ UNCHANGED <<txVars, seed, confVars, txoutVars>>

\* let result = amount.get_value(&shared_secret);
GetValue(shared_secret) ==
    /\ st \notin {"empty", "rejected"}
    /\ gv' = [made |-> TRUE, shared_secret |-> shared_secret,
              res |-> get_value(amount, shared_secret)]
    /\ UNCHANGED <<txVars, seed, st, call, new_res, amount, confVars, txoutVars>>

Next ==
    \/ \E value \in U64, blinding \in Scalars, s \in Secrets : New(value, blinding, s)
    \/ \E other \in Scalars : TamperMaskedValue(other)
    \/ \E other \in Scalars : TamperMaskedBlinding(other)
    \/ \E c \in Points, mv \in Scalars, mb \in Scalars : SetFields(c, mv, mb)
    \/ \E s \in Secrets : GetValue(s)

Spec == Init /\ [][Next]_vars

\* ------------------------------------------------ confirmation scenarios
\* let confirmation = TxOutConfirmationNumber::from(&(view_priv * (tx_priv * G)));
Derive(tx_priv, view_priv) ==
    /\ cst = "empty"
    /\ conf_in' = [tx_priv |-> tx_priv, view_priv |-> view_priv]
    /\ conf' = TxOutConfirmationNumber_from(
                   get_tx_out_shared_secret(view_priv, PublicFrom(tx_priv)))
    /\ cst' = "derived"
    /\ val' = NoValidate
    /\ UNCHANGED <<txVars, seed, amountVars, txoutVars>>

\* let ok = confirmation.validate(&tx_pubkey, &view_private_key);   (&self: conf is not written)
Validate(tx_pubkey, view_private_key) ==
    /\ cst = "derived"
    /\ val' = [made |-> TRUE, self |-> conf, tx_pubkey |-> tx_pubkey,
               view_private_key |-> view_private_key,
               result |-> validate(conf, tx_pubkey, view_private_key)]
    /\ UNCHANGED <<txVars, seed, amountVars, cst, conf_in, conf, txoutVars>>

NextConf ==
    \/ \E tx_priv \in Scalars, view_priv \in Scalars : Derive(tx_priv, view_priv)
    \/ \E tx_pubkey \in PublicKeys, view_priv \in Scalars : Validate(tx_pubkey, view_priv)

SpecConf == Init /\ [][NextConf]_vars

\* ------------------------------------------------------- TxOut scenarios
\* let r = TxOut::new(value, &recipient, &tx_private_key, hint, memo); on Ok the TxOut is kept.
NewTxOut(value, recipient, tx_private_key, hint, memo) ==
    LET r == TxOut_new(value, recipient, tx_private_key, hint, memo)
    IN  /\ tst = "empty"
        /\ tx_call' = [made |-> TRUE, value |-> value, recipient |-> recipient,
                       tx_private_key |-> tx_private_key, hint |-> hint, memo |-> memo,
                       res |-> r]
        /\ txout' = r.tx_out
        /\ tst' = IF r.tag = "Ok" THEN "built" ELSE "rejected"
        /\ memo_call' = NoMemoCall
        /\ tx_gv' = NoGet
        /\ UNCHANGED <<txVars, seed, amountVars, confVars>>

\* TxOut { amount, target_key, public_key, e_fog_hint, e_memo } built field by field
\* (tests, tx.rs:528-534, and any decoded TxOut): e_memo is any byte string.
SetEMemo(e_memo) ==
    /\ tst = "empty"
    /\ txout' = [ZeroTxOut EXCEPT !.e_memo = e_memo]
    /\ tst' = "arbitrary"
    /\ tx_call' = NoTxCall
    /\ memo_call' = NoMemoCall
    /\ tx_gv' = NoGet
    /\ UNCHANGED <<txVars, seed, amountVars, confVars>>

\* let result = tx_out.try_decrypt_memo(&shared_secret);
TryDecryptMemo(shared_secret) ==
    /\ tst \in {"built", "arbitrary"}
    /\ ~tx_gv.made
    /\ memo_call' = [made |-> TRUE, shared_secret |-> shared_secret,
                     res |-> try_decrypt_memo(txout, shared_secret)]
    /\ UNCHANGED <<txVars, seed, amountVars, confVars, tst, tx_call, txout, tx_gv>>

\* let result = tx_out.amount.get_value(&shared_secret);
\* (a scenario queries its TxOut in one way: the memo or the amount)
TxOutGetValue(shared_secret) ==
    /\ tst = "built"
    /\ ~memo_call.made
    /\ tx_gv' = [made |-> TRUE, shared_secret |-> shared_secret,
                 res |-> get_value(txout.amount, shared_secret)]
    /\ UNCHANGED <<txVars, seed, amountVars, confVars, tst, tx_call, txout, memo_call>>

NextTxOut ==
    \/ \E value \in U64, recipient \in Recipients, tx_private_key \in Scalars,
          hint \in Hints, memo \in Memos :
              NewTxOut(value, recipient, tx_private_key, hint, memo)
    \/ \E e_memo \in EMemos : SetEMemo(e_memo)
    \/ \E s \in Secrets \cup {create_shared_secret(tx_call.recipient.view_public_key,
                                                  tx_call.tx_private_key)} :
              TryDecryptMemo(s)
    \/ \E s \in Secrets \cup {create_shared_secret(tx_call.recipient.view_public_key,
                                                  tx_call.tx_private_key)} :
              TxOutGetValue(s)

SpecTxOut == Init /\ [][NextTxOut]_vars

\* ---------------------------------------------------------- Tx scenarios
\* let x = T { .. }: an object of one of the message types, built field by field
MakeObject(type, x) ==
    /\ xst = "empty"
    /\ obj' = [type |-> type, value |-> x]
    /\ xst' = "made"
    /\ proof_call' = NoProofCall
    /\ UNCHANGED <<seed, amountVars, confVars, txoutVars, wire, dec, obj2, hashes, qry>>

\* let proof = TxOutMembershipProof::new(index, highest_index, elements);
NewProof(index, highest_index, elements) ==
    /\ xst = "empty"
    /\ proof_call' = [made |-> TRUE, index |-> index, highest_index |-> highest_index,
                      elements |-> elements]
    /\ obj' = [type |-> "TxOutMembershipProof",
               value |-> TxOutMembershipProof_new(index, highest_index, elements)]
    /\ xst' = "made"
    /\ UNCHANGED <<seed, amountVars, confVars, txoutVars, wire, dec, obj2, hashes, qry>>

\* let mut buf = Vec::new(); x.encode(&mut buf)   (tests, tx.rs:557-560)
EncodeObject ==
    /\ xst = "made"
    /\ wire' = [made |-> TRUE, buf |-> Encode(obj.type, obj.value)]
    /\ xst' = "encoded"
    /\ UNCHANGED <<seed, amountVars, confVars, txoutVars, obj, proof_call, dec, obj2,
                   hashes, qry>>

\* let recovered = T::decode(&buf[..])            (tests, tx.rs:562-563)
DecodeObject ==
    /\ xst = "encoded"
    /\ dec' = [made |-> TRUE, value |-> Decode(obj.type, wire.buf)]
    /\ xst' = "decoded"
    /\ UNCHANGED <<seed, amountVars, confVars, txoutVars, obj, proof_call, wire, obj2,
                   hashes, qry>>

\* let mut y = x.clone(); y.field = v; (x.hash(), y.hash())
\* of a Tx: y.prefix.tombstone_block = v; (x.tx_hash(), y.tx_hash())
VaryAndHash(field, v) ==
    /\ xst = "made"
    /\ \/ /\ obj.type = "TxPrefix"
          /\ LET y == WithField(obj.value, field, v)
             IN  /\ obj2' = [type |-> "TxPrefix", field |-> field, value |-> y]
                 /\ hashes' = [kind |-> "pair", a |-> TxPrefix_hash(obj.value),
                               b |-> TxPrefix_hash(y)]
       \/ /\ obj.type = "Tx"
          /\ field = "tombstone_block"
          /\ LET y == [obj.value EXCEPT !.prefix = WithField(@, field, v)]
             IN  /\ obj2' = [type |-> "Tx", field |-> field, value |-> y]
                 /\ hashes' = [kind |-> "pair", a |-> Tx_tx_hash(obj.value),
                               b |-> Tx_tx_hash(y)]
    /\ xst' = "hashed"
    /\ UNCHANGED <<seed, amountVars, confVars, txoutVars, obj, proof_call, wire, dec, qry>>

\* (tx.tx_hash(), tx.prefix.hash())
HashTxAndPrefix ==
    /\ xst = "made"
    /\ obj.type = "Tx"
    /\ hashes' = [kind |-> "tx", a |-> Tx_tx_hash(obj.value),
                  b |-> TxPrefix_hash(obj.value.prefix)]
    /\ xst' = "hashed"
    /\ UNCHANGED <<seed, amountVars, confVars, txoutVars, obj, proof_call, wire, dec,
                   obj2, qry>>

\* x.get_membership_proof_highest_indices()   (&self: obj is not written)
GetHighestIndices ==
    /\ xst = "made"
    /\ obj.type \in {"TxPrefix", "Tx"}
    /\ qry' = [name |-> "get_membership_proof_highest_indices", before |-> obj.value,
               res |-> IF obj.type = "Tx"
                       THEN Tx_get_membership_proof_highest_indices(obj.value)
                       ELSE TxPrefix_get_membership_proof_highest_indices(obj.value)]
    /\ xst' = "queried"
    /\ UNCHANGED <<seed, amountVars, confVars, txoutVars, obj, proof_call, wire, dec,
                   obj2, hashes>>

\* prefix.output_commitments()   (&self: obj is not written)
OutputCommitments ==
    /\ xst = "made"
    /\ obj.type = "TxPrefix"
    /\ qry' = [name |-> "output_commitments", before |-> obj.value,
               res |-> TxPrefix_output_commitments(obj.value)]
    /\ xst' = "queried"
    /\ UNCHANGED <<seed, amountVars, confVars, txoutVars, obj, proof_call, wire, dec,
                   obj2, hashes>>

\* tx.output_public_keys()   (&self: obj is not written)
OutputPublicKeys ==
    /\ xst = "made"
    /\ obj.type = "Tx"
    /\ qry' = [name |-> "output_public_keys", before |-> obj.value,
               res |-> Tx_output_public_keys(obj.value)]
    /\ xst' = "queried"
    /\ UNCHANGED <<seed, amountVars, confVars, txoutVars, obj, proof_call, wire, dec,
                   obj2, hashes>>

NextTx ==
    \/ \E type \in {"Amount", "TxOut", "TxIn", "TxPrefix", "Tx"} :
          \E x \in Objects(type) : MakeObject(type, x)
    \/ \E index \in 0 .. MaxIndex, highest_index \in 0 .. MaxIndex, elements \in ElementLists :
          NewProof(index, highest_index, elements)
    \/ EncodeObject
    \/ DecodeObject
    \/ \E field \in {"inputs", "outputs", "fee", "tombstone_block"} :
          \E v \in FieldValues(field) : VaryAndHash(field, v)
    \/ HashTxAndPrefix
    \/ GetHighestIndices
    \/ OutputCommitments
    \/ OutputPublicKeys

\* The objects do not depend on which hash function Blake2b is.
InitTx == Init /\ seed = 0

SpecTx == InitTx /\ [][NextTx]_vars

\* ------------------------------------------------------------------ claims
\* The masks of a shared secret, written out from the hash chain:
\* mask_v(S) = hash-to-scalar(bytes of S), mask_b(S) = hash-to-scalar(bytes of mask_v(S)).
mask_v(S) == (Blake2b(PointBytes(S))) % ScalarOrder
mask_b(S) == (Blake2b(ScalarBytes(mask_v(S)))) % ScalarOrder

\* C1: Amount::new succeeds if and only if value <= MAX_TINY_MOB (the boundary
\* included); for a larger value it returns Err(ExceedsLimit(value)) with the
\* value passed in, and produces no Amount.
C1_NewOkIffWithinLimit ==
    call.made =>
        /\ (new_res.tag = "Ok") <=> (call.value <= MAX_TINY_MOB)
        /\ call.value > MAX_TINY_MOB =>
              /\ new_res = ErrExceedsLimit(call.value)
              /\ st = "rejected"
        /\ call.value <= MAX_TINY_MOB => st # "rejected"

C1_Witness ==
    /\ call.made
    /\ call.value = MAX_TINY_MOB + 1
    /\ new_res.tag = "Err"

\* C2: the Amount returned by Amount::new(value, b, S) satisfies at once
\* commitment = value*G + b*H, masked_value = Scalar(value) + mask_v(S) and
\* masked_blinding = b + mask_b(S), modulo the group order.
C2_NewEquations ==
    new_res.tag = "Ok" =>
        /\ new_res.amount.commitment = <<call.value % ScalarOrder, call.blinding>>
        /\ new_res.amount.masked_value =
               (call.value + mask_v(call.shared_secret)) % ScalarOrder
        /\ new_res.amount.masked_blinding =
               (call.blinding + mask_b(call.shared_secret)) % ScalarOrder

C2_Witness ==
    /\ new_res.tag = "Ok"
    /\ call.value > 0
    /\ call.blinding > 0
    /\ mask_v(call.shared_secret) # mask_b(call.shared_secret)
    /\ call.value + mask_v(call.shared_secret) >= ScalarOrder

\* C3: round trip: Amount::new(value, b, S).get_value(S) = Ok((value, b)).
C3_RoundTrip ==
    (st = "built" /\ gv.made /\ gv.shared_secret = call.shared_secret) =>
        gv.res = OkValue(call.value, call.blinding)

C3_Witness ==
    /\ st = "built"
    /\ gv.made
    /\ gv.shared_secret = call.shared_secret
    /\ call.value = MAX_TINY_MOB
    /\ call.blinding > 0
    /\ gv.res.tag = "Ok"

\* C4: for any Amount (arbitrary fields) and any shared secret S, get_value(S)
\* is either Ok((v, b)) with v the low 64 bits of masked_value - mask_v(S),
\* b = masked_blinding - mask_b(S) and commitment = v*G + b*H, or
\* Err(InconsistentCommitment) with commitment # v*G + b*H; nothing else.
C4_GetValueTwoOutcomes ==
    gv.made =>
        LET S == gv.shared_secret
            v == ((amount.masked_value - mask_v(S) + ScalarOrder) % ScalarOrder) % U64Mod
            b == (amount.masked_blinding - mask_b(S) + ScalarOrder) % ScalarOrder
        IN  \/ /\ gv.res = OkValue(v, b)
               /\ amount.commitment = <<v, b>>
            \/ /\ gv.res = ErrInconsistentCommitment
               /\ amount.commitment # <<v, b>>

C4_Witness ==
    /\ st = "arbitrary"
    /\ gv.made
    /\ gv.res.tag = "Ok"
    /\ (amount.masked_value - mask_v(gv.shared_secret) + ScalarOrder) % ScalarOrder >= U64Mod

\* C5: after replacing masked_value of an Amount built by Amount::new(value, b, S)
\* with any other scalar, get_value(S) returns Err(InconsistentCommitment), also
\* when the replacement differs only above the low 64 bits of the unmasked scalar.
C5_MaskedValueTamperRejected ==
    (st = "tampered_value" /\ gv.made /\ gv.shared_secret = call.shared_secret) =>
        gv.res = ErrInconsistentCommitment

\* C6: after replacing masked_blinding of an Amount built by Amount::new(value, b, S)
\* with any other scalar, get_value(S) returns Err(InconsistentCommitment).
C6_MaskedBlindingTamperRejected ==
    (st = "tampered_blinding" /\ gv.made /\ gv.shared_secret = call.shared_secret) =>
        gv.res = ErrInconsistentCommitment

C6_Witness ==
    /\ st = "tampered_blinding"
    /\ gv.made
    /\ gv.shared_secret = call.shared_secret
    /\ gv.res.tag = "Err"

\* C7: for an Amount built by Amount::new(value, b, S) and a shared secret
\* S2 # S, get_value(S2) returns Err(InconsistentCommitment) whenever the masks
\* derived from S2 differ from those of S, and it never returns Ok with a value
\* or blinding other than (value, b).
C7_WrongSecretRejected ==
    (st = "built" /\ gv.made /\ gv.shared_secret # call.shared_secret) =>
        /\ (/\ mask_v(gv.shared_secret) # mask_v(call.shared_secret)
            /\ mask_b(gv.shared_secret) # mask_b(call.shared_secret))
              => gv.res = ErrInconsistentCommitment
        /\ gv.res.tag = "Ok" => gv.res = OkValue(call.value, call.blinding)

C7_Witness ==
    /\ st = "built"
    /\ gv.made
    /\ gv.shared_secret # call.shared_secret
    /\ mask_v(gv.shared_secret) # mask_v(call.shared_secret)
    /\ mask_b(gv.shared_secret) # mask_b(call.shared_secret)
    /\ gv.res = ErrInconsistentCommitment

\* C8: with tx_pub = tx_priv*G and S = view_priv*tx_pub,
\* TxOutConfirmationNumber::from(S).validate(tx_pub, view_priv) is true; for a
\* view_priv2 whose shared secret view_priv2*tx_pub differs from S it is false;
\* and validate leaves the confirmation number as it was.
C8_ConfirmationSoundness ==
    (cst = "derived" /\ val.made) =>
        LET tx_pub == <<conf_in.tx_priv % ScalarOrder, 0>>
            S == <<(conf_in.view_priv * conf_in.tx_priv) % ScalarOrder, 0>>
            S2 == <<(val.view_private_key * val.tx_pubkey[1]) % ScalarOrder,
                    (val.view_private_key * val.tx_pubkey[2]) % ScalarOrder>>
        IN  /\ (val.tx_pubkey = tx_pub /\ val.view_private_key = conf_in.view_priv)
                  => val.result = TRUE
            /\ (val.tx_pubkey = tx_pub /\ S2 # S) => val.result = FALSE
            /\ conf = val.self

C8_Witness ==
    /\ cst = "derived"
    /\ val.made
    /\ conf_in.tx_priv > 1
    /\ conf_in.view_priv > 1
    /\ val.tx_pubkey = <<conf_in.tx_priv, 0>>
    /\ val.view_private_key = conf_in.view_priv
    /\ val.result = TRUE

\* C9: try_decrypt_memo returns Ok(MemoPayload::default()) when e_memo is empty,
\* whatever the shared secret; otherwise it answers as MemoPayload::try_decrypt does;
\* it returns Err(LengthError) if and only if e_memo.len() is neither 0 nor 34.
C9_MemoLengthError ==
    memo_call.made =>
        /\ Len(txout.e_memo) = 0 => memo_call.res = OkMemo([i \in 1 .. 34 |-> 0])
        /\ Len(txout.e_memo) # 0 =>
              memo_call.res = MemoPayload_try_decrypt(txout.e_memo, memo_call.shared_secret)
        /\ (memo_call.res = ErrLengthError) <=> (Len(txout.e_memo) \notin {0, 34})
        /\ memo_call.res.tag \in {"Ok", "Err"}
        /\ memo_call.res.tag = "Err" => memo_call.res = ErrLengthError

C9_Witness ==
    /\ memo_call.made
    /\ Len(txout.e_memo) = 5
    /\ memo_call.res = ErrLengthError

\* C10: every TxOut returned by TxOut::new has e_memo.len() in {0, 34}, and
\* try_decrypt_memo with S = shared_secret(recipient.view_public_key, tx_private_key)
\* returns Ok(memo), the plaintext memo passed to TxOut::new.
C10_MemoRoundTrip ==
    tst = "built" =>
        /\ Len(txout.e_memo) \in {0, 34}
        /\ (/\ memo_call.made
            /\ memo_call.shared_secret =
                   <<(tx_call.tx_private_key * tx_call.recipient.view_public_key[1])
                         % ScalarOrder,
                     (tx_call.tx_private_key * tx_call.recipient.view_public_key[2])
                         % ScalarOrder>>)
              => memo_call.res = OkMemo(tx_call.memo)

C10_Witness ==
    /\ tst = "built"
    /\ memo_call.made
    /\ memo_call.shared_secret =
           ScalarMul(tx_call.tx_private_key, tx_call.recipient.view_public_key)
    /\ tx_call.memo # MemoPayload_default
    /\ txout.e_memo # tx_call.memo
    /\ memo_call.res = OkMemo(tx_call.memo)

\* C11: TxOut::new fails if and only if value > MAX_TINY_MOB, then with
\* ExceedsLimit(value) as Amount::new returns it and with no TxOut; on success
\* e_fog_hint is the hint given, public_key = tx_private_key * spend_public_key,
\* target_key = one_time_public_key(tx_private_key, recipient), and
\* amount.get_value(S) is Ok with the value given, S being
\* shared_secret(recipient.view_public_key, tx_private_key).
C11_TxOutNew ==
    tx_call.made =>
        LET r == tx_call.tx_private_key
            C == tx_call.recipient.view_public_key
            D == tx_call.recipient.spend_public_key
            S == <<(r * C[1]) % ScalarOrder, (r * C[2]) % ScalarOrder>>
            Hs == (Blake2b(PointBytes(S) + 1)) % ScalarOrder
        IN  /\ (tx_call.res.tag = "Err") <=> (tx_call.value > MAX_TINY_MOB)
            /\ tx_call.res.tag \in {"Ok", "Err"}
            /\ tx_call.res.tag = "Err" =>
                  /\ tx_call.res.err = "ExceedsLimit"
                  /\ tx_call.res.arg = tx_call.value
                  /\ tst = "rejected"
                  /\ txout = ZeroTxOut
            /\ tx_call.res.tag = "Ok" =>
                  /\ tst = "built"
                  /\ txout = tx_call.res.tx_out
                  /\ txout.e_fog_hint = tx_call.hint
                  /\ txout.public_key = <<(r * D[1]) % ScalarOrder, (r * D[2]) % ScalarOrder>>
                  /\ txout.target_key =
                         <<(Hs + D[1]) % ScalarOrder, D[2] % ScalarOrder>>
                  /\ (tx_gv.made /\ tx_gv.shared_secret = S) =>
                         /\ tx_gv.res.tag = "Ok"
                         /\ tx_gv.res.value = tx_call.value

C11_Witness ==
    /\ tx_call.made
    /\ tx_call.res.tag = "Ok"
    /\ tx_call.value = MAX_TINY_MOB
    /\ txout.public_key # txout.target_key
    /\ tx_gv.made
    /\ tx_gv.shared_secret = ScalarMul(tx_call.tx_private_key, tx_call.recipient.view_public_key)
    /\ tx_gv.res.tag = "Ok"

\* C12: protobuf round trip. Whenever an Amount, TxOut, TxIn, TxPrefix, Tx or
\* TxOutMembershipProof x was encoded and the buffer decoded, the decoded value equals
\* x; this includes an x whose e_memo is empty or 34 bytes long, whose proofs, ring,
\* inputs or outputs list is empty, and whose fee, tombstone_block, index or
\* highest_index is zero (and then left out of the encoding).
C12_ProtobufRoundTrip ==
    xst = "decoded" => (dec.made /\ wire.made /\ dec.value = obj.value)

\* A Tx with zero fee and tombstone_block, an input with an empty ring and no proofs,
\* an output with an empty e_memo and an output with a 34-byte e_memo went through
\* encode and decode.
C12_Witness ==
    /\ xst = "decoded"
    /\ obj.type = "Tx"
    /\ obj.value.prefix.fee = 0
    /\ obj.value.prefix.tombstone_block = 0
    /\ Len(obj.value.prefix.inputs) = 2
    /\ Len(obj.value.prefix.inputs[1].ring) = 0
    /\ Len(obj.value.prefix.inputs[1].proofs) = 0
    /\ Len(obj.value.prefix.inputs[2].proofs) = 2
    /\ obj.value.prefix.inputs[2].proofs[2].highest_index = 0
    /\ Len(obj.value.prefix.outputs) = 2
    /\ Len(obj.value.prefix.outputs[1].e_memo) = 0
    /\ Len(obj.value.prefix.outputs[2].e_memo) = MemoLen
    /\ FieldsOf(DecMessage(wire.buf, 1), 3) = <<>>
    /\ dec.value = obj.value

\* C13: hash stability and sensitivity. When a TxPrefix and its copy with one field
\* (inputs, outputs, fee or tombstone_block) given a value are hashed with
\* TxPrefix::hash(), the two hashes are equal if the two prefixes are equal and differ
\* if they differ; likewise for Tx::tx_hash() of a Tx and its copy with another
\* prefix.tombstone_block. Tx::tx_hash() of a Tx differs from TxPrefix::hash() of its
\* prefix, and the two are computed under different domain tags.
C13_HashSensitivity ==
    /\ hashes.kind = "pair" =>
          /\ obj2.type = obj.type
          /\ (obj.value = obj2.value) => (hashes.a = hashes.b)
          /\ (obj.value # obj2.value) => (hashes.a # hashes.b)
    /\ hashes.kind = "tx" =>
          /\ hashes.a # hashes.b
          /\ hashes.a.context # hashes.b.context

\* Two Tx that differ only in prefix.tombstone_block were hashed.
C13_Witness ==
    /\ hashes.kind = "pair"
    /\ obj.type = "Tx"
    /\ obj.value.prefix.tombstone_block # obj2.value.prefix.tombstone_block
    /\ obj2.value = [obj.value EXCEPT !.prefix.tombstone_block =
                         obj2.value.prefix.tombstone_block]
    /\ Len(obj.value.prefix.inputs) > 0
    /\ hashes.a # hashes.b

\* Number of proofs of the first n inputs.
RECURSIVE ProofsBefore(_, _)
ProofsBefore(inputs, n) ==
    IF n = 0 THEN 0 ELSE ProofsBefore(inputs, n - 1) + Len(inputs[n].proofs)

\* The prefix a queried object is or holds.
PrefixOf(type, x) == IF type = "Tx" THEN x.prefix ELSE x

\* C14: get_membership_proof_highest_indices() of a TxPrefix returns a list whose
\* length is the sum of proofs.len() over the inputs and whose element at position
\* (number of proofs of the inputs before input i) + j is the highest_index of proof j
\* of input i: encounter order, nothing for an input without proofs, duplicates kept.
\* Called on a Tx it returns the list of the Tx's prefix.
C14_HighestIndices ==
    qry.name = "get_membership_proof_highest_indices" =>
        LET x == PrefixOf(obj.type, obj.value)
        IN  /\ Len(qry.res) = ProofsBefore(x.inputs, Len(x.inputs))
            /\ \A i \in 1 .. Len(x.inputs) :
                  \A j \in 1 .. Len(x.inputs[i].proofs) :
                      qry.res[ProofsBefore(x.inputs, i - 1) + j]
                          = x.inputs[i].proofs[j].highest_index
            /\ obj.type = "Tx" =>
                  qry.res = TxPrefix_get_membership_proof_highest_indices(obj.value.prefix)

\* A Tx whose inputs are one without proofs and then one with two proofs, twice the
\* same input giving duplicates in a prefix, was queried.
C14_Witness ==
    /\ qry.name = "get_membership_proof_highest_indices"
    /\ \/ /\ obj.type = "Tx"
          /\ Len(obj.value.prefix.inputs) = 2
          /\ Len(obj.value.prefix.inputs[1].proofs) = 0
          /\ qry.res = <<2, 0>>
       \/ /\ obj.type = "TxPrefix"
          /\ qry.res = <<2, 0, 2, 0>>

\* C15: output_commitments() of a TxPrefix and output_public_keys() of a Tx return a
\* list as long as the outputs whose i-th element is outputs[i].amount.commitment,
\* respectively outputs[i].public_key, and the object is as it was before the call.
C15_OutputQueries ==
    /\ qry.name = "output_commitments" =>
          /\ Len(qry.res) = Len(obj.value.outputs)
          /\ \A i \in 1 .. Len(obj.value.outputs) :
                qry.res[i] = obj.value.outputs[i].amount.commitment
          /\ obj.value = qry.before
    /\ qry.name = "output_public_keys" =>
          /\ Len(qry.res) = Len(obj.value.prefix.outputs)
          /\ \A i \in 1 .. Len(obj.value.prefix.outputs) :
                qry.res[i] = obj.value.prefix.outputs[i].public_key
          /\ obj.value = qry.before

\* The public keys of a Tx with two different outputs, and with twice the same output,
\* were returned.
C15_Witness ==
    /\ qry.name = "output_public_keys"
    /\ qry.res \in {<<(<<3, 0>>), (<<0, 0>>)>>, <<(<<3, 0>>), (<<3, 0>>)>>}
    /\ Len(obj.value.prefix.outputs) = 2

\* Number of leaves a range covers, less one.
RangeWidth(r) == r.to - r.from

\* C16: every proof TxOutMembershipProof::new(index, highest_index, elements) returns
\* has index <= highest_index, every element's range has from <= to, and each
\* element's range is strictly narrower than the next element's.
C16_ProofInvariants ==
    proof_call.made =>
        /\ obj.value.index <= obj.value.highest_index
        /\ \A i \in 1 .. Len(obj.value.elements) :
              obj.value.elements[i].range.from <= obj.value.elements[i].range.to
        /\ \A i \in 1 .. (Len(obj.value.elements) - 1) :
              RangeWidth(obj.value.elements[i].range)
                  < RangeWidth(obj.value.elements[i + 1].range)

\* get_value with the explicit check: InconsistentCommitment whenever the scalar
\* masked_value - mask_v(S) does not fit in a u64, the implemented get_value otherwise.
get_value_wide_check(self, shared_secret) ==
    IF ScalarBytes(ScalarSub(self.masked_value, get_value_mask(shared_secret))) >= U64Mod
    THEN ErrInconsistentCommitment
    ELSE get_value(self, shared_secret)

\* C17: for every Amount and every shared secret S, get_value(S) returns what the
\* variant with the explicit wide-scalar check returns: whenever masked_value -
\* mask_v(S) does not fit in 64 bits, get_value fails with InconsistentCommitment.
C17_TruncationEquivalentToWideCheck ==
    gv.made => gv.res = get_value_wide_check(amount, gv.shared_secret)

====
